---------------------------- MODULE Spec2Model ----------------------------
(***************************************************************************)
(* Model of the two Hadoop-streaming scripts Scripts/mapreduce/mapper.py   *)
(* (read_avro_from_stdin, the Extractor) and Scripts/mapreduce/reducer.py  *)
(* (reduce_ages, the Aggregator).                                          *)
(*                                                                         *)
(* Text is modelled character by character (a string is a sequence of      *)
(* one-character strings), and Python floats are modelled as IEEE-754      *)
(* binary64 values with round-to-nearest-even, so that formatting          *)
(* ("{:.2f}"), parsing (float(...)), "+=" and "/" are computed the way the *)
(* interpreter computes them.  TLC integers are 32 bits wide, so the 53    *)
(* bit significands are kept as little-endian sequences of 15-bit limbs.   *)
(***************************************************************************)
EXTENDS Integers, Sequences, FiniteSets

(***************************************************************************)
(* The library below is written as functions, not operators: TLC applies   *)
(* a function to the value of its argument, so no argument is evaluated    *)
(* more than once.                                                         *)
(*                                                                         *)
(* Arbitrary-size naturals: little-endian limb sequences, no leading zero  *)
(* limb, zero is the empty sequence.                                       *)
(***************************************************************************)
LimbBase == 2 ^ 15

Limbs == Seq(Nat)

\* a without its high zero limbs
BNorm[a \in Seq(Int)] ==
  IF \A i \in 1..Len(a) : a[i] = 0 THEN <<>>
  ELSE SubSeq(a, 1, CHOOSE i \in 1..Len(a) :
                      a[i] # 0 /\ \A j \in (i + 1)..Len(a) : a[j] = 0)

BFromInt[n \in Nat] ==
  IF n = 0 THEN <<>> ELSE <<n % LimbBase>> \o BFromInt[n \div LimbBase]

BToInt[a \in Limbs] ==
  IF a = <<>> THEN 0 ELSE a[1] + LimbBase * BToInt[Tail(a)]

\* limb i of a, 0 above its length
Limb(a, i) == IF i <= Len(a) THEN a[i] ELSE 0

\* a run of limbs s with the carry c out of it (the remainder, in a division)
Parts == [s : Seq(Int), c : Int]

\* the run L followed by the run R above it
Glue[L \in Parts, R \in Parts] == [s |-> L.s \o R.s, c |-> R.c]

\* Carry(x, c, lo, hi): limbs lo..hi of the number that holds x[i] at limb i,
\* the carry c coming into limb lo; x[i] may lie outside 0..LimbBase - 1, and
\* a borrow is a carry of -1.  The run is halved, the lower half first, so
\* that the evaluation nests no deeper than the logarithm of its length.
RECURSIVE Carry(_, _, _, _)
CarryOn[x \in Seq(Int), L \in Parts, lo \in Nat, hi \in Nat] ==
  Glue[L, Carry(x, L.c, lo, hi)]

Carry(x, c, lo, hi) ==
  IF lo > hi THEN [s |-> <<>>, c |-> c]
  ELSE IF lo = hi THEN [s |-> <<(x[lo] + c) % LimbBase>>,
                        c |-> (x[lo] + c) \div LimbBase]
  ELSE CarryOn[x, Carry(x, c, lo, (lo + hi) \div 2), (lo + hi) \div 2 + 1, hi]

\* the limbs of a run with its carry on top
Finish[p \in Parts] == BNorm[p.s \o BFromInt[p.c]]

\* the number that holds x[i] at limb i
Settle[x \in Seq(Int)] == Finish[Carry(x, 0, 1, Len(x))]

\* a + b
BAdd(a, b) ==
  Settle[[i \in 1..(IF Len(a) < Len(b) THEN Len(b) ELSE Len(a)) |->
            Limb(a, i) + Limb(b, i)]]

\* a - b for a >= b
BSub(a, b) == Settle[[i \in 1..Len(a) |-> a[i] - Limb(b, i)]]

\* -1, 0, 1 as a < b, a = b, a > b
BCmp[a \in Limbs, b \in Limbs] ==
  IF Len(a) < Len(b) THEN -1
  ELSE IF Len(a) > Len(b) THEN 1
  ELSE IF a = b THEN 0
  ELSE IF \E i \in 1..Len(a) :
            a[i] < b[i] /\ \A j \in (i + 1)..Len(a) : a[j] = b[j] THEN -1
  ELSE 1

\* a * k for 0 <= k <= LimbBase
BMulSmall(a, k) == Settle[[i \in 1..Len(a) |-> a[i] * k]]

\* the quotient run L placed below the run H found before it
GlueBelow[H \in Parts, L \in Parts] == [s |-> L.s \o H.s, c |-> L.c]

\* Divide(a, k, r, lo, hi): long division of limbs hi down to lo of a by k,
\* 0 < k <= LimbBase, r the remainder coming down from limb hi + 1; the
\* upper half of the run first
RECURSIVE Divide(_, _, _, _, _)
DivideOn[a \in Limbs, k \in Nat, H \in Parts, lo \in Nat, hi \in Nat] ==
  GlueBelow[H, Divide(a, k, H.c, lo, hi)]

Divide(a, k, r, lo, hi) ==
  IF lo > hi THEN [s |-> <<>>, c |-> r]
  ELSE IF lo = hi THEN [s |-> <<(r * LimbBase + a[lo]) \div k>>,
                        c |-> (r * LimbBase + a[lo]) % k]
  ELSE DivideOn[a, k, Divide(a, k, r, (lo + hi) \div 2 + 1, hi), lo, (lo + hi) \div 2]

QuotRem[p \in Parts] == [q |-> BNorm[p.s], r |-> p.c]

\* quotient and remainder of a by k, 0 < k <= LimbBase
BDivMod[a \in Limbs, k \in Nat] == QuotRem[Divide(a, k, 0, 1, Len(a))]

Zeros[n \in Nat] == [i \in 1..n |-> 0]

\* a * 2^n
BShl[a \in Limbs, n \in Nat] ==
  IF a = <<>> THEN <<>>
  ELSE Zeros[n \div 15] \o BMulSmall(a, 2 ^ (n % 15))

\* floor(a / 2^n)
BShr[a \in Limbs, n \in Nat] ==
  IF n \div 15 >= Len(a) THEN <<>>
  ELSE BDivMod[SubSeq(a, (n \div 15) + 1, Len(a)), 2 ^ (n % 15)].q

\* the number of bits of n < 2^31
IntBitLen[n \in Nat] == Cardinality({k \in 0..30 : 2 ^ k <= n})

BBitLen[a \in Limbs] ==
  IF a = <<>> THEN 0 ELSE (Len(a) - 1) * 15 + IntBitLen[a[Len(a)]]

BIsOdd[a \in Limbs] == a # <<>> /\ a[1] % 2 = 1

\* q = floor(N / 2^d) moved to the nearest integer to N / 2^d, ties to even
BRoundShift[N \in Limbs, d \in Nat, q \in Limbs] ==
  IF d = 0 THEN q
  ELSE IF BCmp[BSub(N, BShl[q, d]), BShl[<<1>>, d - 1]] > 0 THEN BAdd(q, <<1>>)
  ELSE IF BCmp[BSub(N, BShl[q, d]), BShl[<<1>>, d - 1]] = 0 /\ BIsOdd[q] THEN BAdd(q, <<1>>)
  ELSE q

\* N / 2^d rounded to the nearest integer, ties to even
BRoundShr[N \in Limbs, d \in Nat] == BRoundShift[N, d, BShr[N, d]]

(***************************************************************************)
(* Python float = IEEE-754 binary64.  A finite value is (-1)^neg * m * 2^e *)
(* with m = 0 and e = 0 (a zero), m of exactly 53 bits and                 *)
(* MinExp <= e <= MaxExp (a normal), or m of fewer than 53 bits and        *)
(* e = MinExp (a subnormal).  With m = 0, e = 1 stands for an infinity and *)
(* e = 2 for NaN.  Every operation rounds the exact result to nearest,     *)
(* ties to even, and overflows to an infinity.                             *)
(***************************************************************************)
Doubles == [neg : BOOLEAN, m : Limbs, e : Int]

MinExp == -1022 - 52

MaxExp == 1023 - 52

DZero(neg) == [neg |-> neg, m |-> <<>>, e |-> 0]

DInf(neg) == [neg |-> neg, m |-> <<>>, e |-> 1]

DNaN == [neg |-> FALSE, m |-> <<>>, e |-> 2]

IsInf(a) == a.m = <<>> /\ a.e = 1

IsNaN(a) == a.m = <<>> /\ a.e = 2

IsFinite(a) == a.m # <<>> \/ a.e = 0

\* (-1)^neg * m * 2^e for m rounded to 53 bits at the most (54 after a
\* carry out of the rounding) and e >= MinExp
DPack[neg \in BOOLEAN, m \in Limbs, e \in Int] ==
  IF m = <<>> THEN DZero(neg)
  ELSE IF BBitLen[m] > 53 THEN DPack[neg, BShr[m, 1], e + 1]
  ELSE IF e > MaxExp THEN DInf(neg)
  ELSE [neg |-> neg, m |-> m, e |-> e]

\* (-1)^neg * N * 2^e rounded to a multiple of 2^E
RoundTo[neg \in BOOLEAN, N \in Limbs, e \in Int, E \in Int] ==
  IF E <= e THEN DPack[neg, BShl[N, e - E], E]
  ELSE DPack[neg, BRoundShr[N, E - e], E]

\* (-1)^neg * N * 2^e rounded to binary64, bl the bit length of N
RoundBits[neg \in BOOLEAN, N \in Limbs, e \in Int, bl \in Nat] ==
  IF bl = 0 THEN DZero(neg)
  ELSE IF e + bl - 53 < MinExp THEN RoundTo[neg, N, e, MinExp]
  ELSE RoundTo[neg, N, e, e + bl - 53]

RoundNat[neg \in BOOLEAN, N \in Limbs, e \in Int] == RoundBits[neg, N, e, BBitLen[N]]

QuotRems == [q : Limbs, r : Nat]

\* 2 * q + (1 if r > 0): the quotient with a sticky bit
Sticky[dm \in QuotRems] ==
  BAdd(BShl[dm.q, 1], BFromInt[IF dm.r = 0 THEN 0 ELSE 1])

\* dm.q divided by k, the remainder kept as a flag: nonzero if anything
\* has been cut off so far
DivStep[dm \in QuotRems, d \in QuotRems] ==
  [q |-> d.q, r |-> IF dm.r = 0 /\ d.r = 0 THEN 0 ELSE 1]

\* floor(dm.q / (ks[1] * ... * ks[n])) for divisors 0 < ks[i] <= LimbBase
DivAll[dm \in QuotRems, ks \in Seq(Nat)] ==
  IF ks = <<>> THEN dm
  ELSE IF Len(ks) = 1 THEN DivStep[dm, BDivMod[dm.q, ks[1]]]
  ELSE DivAll[DivAll[dm, SubSeq(ks, 1, Len(ks) \div 2)],
              SubSeq(ks, Len(ks) \div 2 + 1, Len(ks))]

\* the bit lengths of the divisors, added up
SumBits[ks \in Seq(Nat)] ==
  IF ks = <<>> THEN 0
  ELSE IF Len(ks) = 1 THEN IntBitLen[ks[1]]
  ELSE SumBits[SubSeq(ks, 1, Len(ks) \div 2)] +
       SumBits[SubSeq(ks, Len(ks) \div 2 + 1, Len(ks))]

\* (-1)^neg * N * 2^e / (ks[1] * ... * ks[n]) rounded to binary64: 56 or
\* more quotient bits and a sticky bit decide the rounding
RoundQuotShifted[neg \in BOOLEAN, N \in Limbs, ks \in Seq(Nat), e \in Int, s \in Nat] ==
  RoundNat[neg, Sticky[DivAll[[q |-> BShl[N, s], r |-> 0], ks]], e - s - 1]

RoundQuot[neg \in BOOLEAN, N \in Limbs, ks \in Seq(Nat), e \in Int] ==
  RoundQuotShifted[neg, N, ks, e, 56 + SumBits[ks]]

\* the float of the int (-1)^neg * N
DFromInt(neg, N) == RoundNat[neg, N, 0]

DNeg[a \in Doubles] == IF IsNaN(a) THEN a ELSE [a EXCEPT !.neg = ~a.neg]

\* (-1)^an * A * 2^e + (-1)^bn * B * 2^e rounded to binary64
DAddAligned[an \in BOOLEAN, A \in Limbs, bn \in BOOLEAN, B \in Limbs, e \in Int] ==
  IF an = bn THEN RoundNat[an, BAdd(A, B), e]
  ELSE IF BCmp[A, B] = 0 THEN DZero(FALSE)
  ELSE IF BCmp[A, B] > 0 THEN RoundNat[an, BSub(A, B), e]
  ELSE RoundNat[bn, BSub(B, A), e]

\* a + b
DAdd[a \in Doubles, b \in Doubles] ==
  IF IsNaN(a) \/ IsNaN(b) THEN DNaN
  ELSE IF IsInf(a) /\ IsInf(b) THEN (IF a.neg = b.neg THEN a ELSE DNaN)
  ELSE IF IsInf(a) THEN a
  ELSE IF IsInf(b) THEN b
  ELSE IF a.m = <<>> /\ b.m = <<>> THEN DZero(a.neg /\ b.neg)
  ELSE IF a.m = <<>> THEN b
  ELSE IF b.m = <<>> THEN a
  ELSE IF a.e < b.e THEN DAddAligned[a.neg, a.m, b.neg, BShl[b.m, b.e - a.e], a.e]
  ELSE DAddAligned[a.neg, BShl[a.m, a.e - b.e], b.neg, b.m, b.e]

\* a / (ks[1] * ... * ks[n]), the divisor a positive float holding that product
DDivBy[a \in Doubles, ks \in Seq(Nat)] ==
  IF a.m = <<>> THEN a ELSE RoundQuot[a.neg, a.m, ks, a.e]

\* a / n for an int n, 0 < n <= LimbBase (the int converts to float exactly)
DDivInt[a \in Doubles, n \in Nat] == DDivBy[a, <<n>>]

(***************************************************************************)
(* Text: a string is a sequence of characters.  A character is written as  *)
(* the one-character string it is; a character that has no TLA+ literal    *)
(* is named by its Python escape, "\\x0b" for chr(0x0b), "\\u2003" for     *)
(* chr(0x2003): such a name is one character of the text.  The alphabet is *)
(* printable ASCII, the white-space characters and the decimal digits of   *)
(* Unicode.                                                                *)
(***************************************************************************)
Text == Seq(STRING)

Digit == <<"0", "1", "2", "3", "4", "5", "6", "7", "8", "9">>

DigitVal(c) == CHOOSE d \in 0..9 : Digit[d + 1] = c

IsDigit(c) == \E d \in 0..9 : Digit[d + 1] = c

\* the decimal digits of n, none for 0
IntStr[n \in Nat] ==
  IF n = 0 THEN <<>> ELSE IntStr[n \div 10] \o <<Digit[(n % 10) + 1]>>

\* the four decimal digits of n < 10^4
FourDigits[n \in Nat] ==
  <<Digit[(n \div 1000) + 1], Digit[((n \div 100) % 10) + 1],
    Digit[((n \div 10) % 10) + 1], Digit[(n % 10) + 1]>>

\* ds without its leading zeros
Significant[ds \in Text] ==
  IF \A i \in 1..Len(ds) : ds[i] = "0" THEN <<>>
  ELSE SubSeq(ds, CHOOSE i \in 1..Len(ds) : ds[i] # "0" /\ \A j \in 1..(i - 1) : ds[j] = "0",
              Len(ds))

\* a number q and the decimal digits out found below it
Decimals == [q : Limbs, out : Text]

Emit[out \in Text, dm \in QuotRems] == [q |-> dm.q, out |-> FourDigits[dm.r] \o out]

\* n times the four lowest decimal digits of st.q moved to st.out
Groups[st \in Decimals, n \in Nat] ==
  IF n = 0 THEN st
  ELSE IF n = 1 THEN Emit[st.out, BDivMod[st.q, 10 ^ 4]]
  ELSE Groups[Groups[st, n \div 2], n - n \div 2]

\* the decimal digits of a, none for 0: a group of four digits holds 13
\* bits and more
BDecStr[a \in Limbs] ==
  Significant[Groups[[q |-> a, out |-> <<>>], (15 * Len(a)) \div 13 + 1].out]

\* |a| * 100 rounded to an integer, ties to even, on the exact binary value
Hundredths[a \in Doubles] ==
  IF a.e >= 0 THEN BShl[BMulSmall(a.m, 100), a.e]
  ELSE BRoundShr[BMulSmall(a.m, 100), -a.e]

\* the digits of a number of hundredths written with two decimals
PointTwo[ds \in Text] ==
  IF Len(ds) < 3 THEN PointTwo[<<"0">> \o ds]
  ELSE SubSeq(ds, 1, Len(ds) - 2) \o <<".">> \o SubSeq(ds, Len(ds) - 1, Len(ds))

\* h hundredths written with two decimals
CentiStr[h \in Limbs] == PointTwo[BDecStr[h]]

\* f"{a:.2f}"
Format2[a \in Doubles] ==
  IF IsNaN(a) THEN <<"n", "a", "n">>
  ELSE (IF a.neg THEN <<"-">> ELSE <<>>) \o
       (IF IsInf(a) THEN <<"i", "n", "f">> ELSE CentiStr[Hundredths[a]])

\* the white space of ASCII that float() strips (Py_ISSPACE)
AsciiWhitespace == {" ", "\t", "\n", "\r", "\f", "\\x0b"}

\* the white space beyond ASCII; a character with no TLA+ escape of its own
\* is written as its Python escape
UnicodeWhitespace ==
  {"\\x85", "\\xa0", "\\u1680", "\\u2000", "\\u2001", "\\u2002", "\\u2003",
   "\\u2004", "\\u2005", "\\u2006", "\\u2007", "\\u2008", "\\u2009", "\\u200a",
   "\\u2028", "\\u2029", "\\u202f", "\\u205f", "\\u3000"}

\* the characters str.isspace() holds of, which str.strip() removes: these
\* and the separators \x1c to \x1f
Whitespace ==
  AsciiWhitespace \cup {"\\x1c", "\\x1d", "\\x1e", "\\x1f"} \cup UnicodeWhitespace

\* s from its first character outside ws
LStrip[s \in Text, ws \in SUBSET Whitespace] ==
  IF \A i \in 1..Len(s) : s[i] \in ws THEN <<>>
  ELSE SubSeq(s, CHOOSE i \in 1..Len(s) :
                   s[i] \notin ws /\ \A j \in 1..(i - 1) : s[j] \in ws,
              Len(s))

\* s up to its last character outside ws
RStrip[s \in Text, ws \in SUBSET Whitespace] ==
  IF \A i \in 1..Len(s) : s[i] \in ws THEN <<>>
  ELSE SubSeq(s, 1, CHOOSE i \in 1..Len(s) :
                      s[i] \notin ws /\ \A j \in (i + 1)..Len(s) : s[j] \in ws)

\* s.strip()
Strip(s) == RStrip[LStrip[s, Whitespace], Whitespace]

\* the positions of sep in s, with 0 before them and Len(s) + 1 behind
Cuts[s \in Text, sep \in STRING] ==
  {0, Len(s) + 1} \cup {i \in 1..Len(s) : s[i] = sep}

\* the k-th of the cuts P from the left
Cut[P \in SUBSET Nat, k \in Nat] ==
  CHOOSE p \in P : Cardinality({q \in P : q < p}) = k - 1

\* the fields between the cuts P
Between[s \in Text, P \in SUBSET Nat] ==
  [k \in 1..(Cardinality(P) - 1) |-> SubSeq(s, Cut[P, k] + 1, Cut[P, k + 1] - 1)]

\* s.split(sep): the fields between the separators, always at least one
Split(s, sep) == Between[s, Cuts[s, sep]]

\* the escape repr() writes, character by character, for a white space
\* character other than the blank (none of them is printable)
Escape(c) ==
  CASE c = "\t" -> <<"\\", "t">>
    [] c = "\n" -> <<"\\", "n">>
    [] c = "\r" -> <<"\\", "r">>
    [] c = "\\x0b" -> <<"\\", "x", "0", "b">>
    [] c = "\f" -> <<"\\", "x", "0", "c">>
    [] c = "\\x1c" -> <<"\\", "x", "1", "c">>
    [] c = "\\x1d" -> <<"\\", "x", "1", "d">>
    [] c = "\\x1e" -> <<"\\", "x", "1", "e">>
    [] c = "\\x1f" -> <<"\\", "x", "1", "f">>
    [] c = "\\x85" -> <<"\\", "x", "8", "5">>
    [] c = "\\xa0" -> <<"\\", "x", "a", "0">>
    [] c = "\\u1680" -> <<"\\", "u", "1", "6", "8", "0">>
    [] c = "\\u2000" -> <<"\\", "u", "2", "0", "0", "0">>
    [] c = "\\u2001" -> <<"\\", "u", "2", "0", "0", "1">>
    [] c = "\\u2002" -> <<"\\", "u", "2", "0", "0", "2">>
    [] c = "\\u2003" -> <<"\\", "u", "2", "0", "0", "3">>
    [] c = "\\u2004" -> <<"\\", "u", "2", "0", "0", "4">>
    [] c = "\\u2005" -> <<"\\", "u", "2", "0", "0", "5">>
    [] c = "\\u2006" -> <<"\\", "u", "2", "0", "0", "6">>
    [] c = "\\u2007" -> <<"\\", "u", "2", "0", "0", "7">>
    [] c = "\\u2008" -> <<"\\", "u", "2", "0", "0", "8">>
    [] c = "\\u2009" -> <<"\\", "u", "2", "0", "0", "9">>
    [] c = "\\u200a" -> <<"\\", "u", "2", "0", "0", "a">>
    [] c = "\\u2028" -> <<"\\", "u", "2", "0", "2", "8">>
    [] c = "\\u2029" -> <<"\\", "u", "2", "0", "2", "9">>
    [] c = "\\u202f" -> <<"\\", "u", "2", "0", "2", "f">>
    [] c = "\\u205f" -> <<"\\", "u", "2", "0", "5", "f">>
    [] c = "\\u3000" -> <<"\\", "u", "3", "0", "0", "0">>

\* what repr() writes for the character c between quotes q: the escape of a
\* backslash, of the quote and of a character that is not printable, and any
\* other character (a decimal digit of Unicode included) as itself
ReprChar(c, q) ==
  IF c = "\\" THEN <<"\\", "\\">>
  ELSE IF c = "'" /\ q = "'" THEN <<"\\", "'">>
  ELSE IF c \in Whitespace \ {" "} THEN Escape(c)
  ELSE <<c>>

Has(s, c) == \E i \in 1..Len(s) : s[i] = c

\* the quote of repr(s): double when s holds ' and no ", else single
QuoteOf(s) == IF Has(s, "'") /\ ~Has(s, "\"") THEN "\"" ELSE "'"

\* what repr() writes for the characters of s between quotes q
RECURSIVE ReprBody(_, _)
ReprBody(s, q) ==
  IF s = <<>> THEN <<>>
  ELSE ReprBody(SubSeq(s, 1, Len(s) - 1), q) \o ReprChar(s[Len(s)], q)

\* repr(s)
Repr(s) == <<QuoteOf(s)>> \o ReprBody(s, QuoteOf(s)) \o <<QuoteOf(s)>>

(***************************************************************************)
(* float(s): [ws] [sign] (digits [. [digits]] | . digits) [e [sign] digits]*)
(* [ws], or [sign] inf | infinity | nan, letters in either case; one "_"   *)
(* may stand between two digits.                                           *)
(***************************************************************************)
NoFloat == [ok |-> FALSE, val |-> DZero(FALSE)]

\* the int of up to four digits
SmallNat[ds \in Text] ==
  IF ds = <<>> THEN 0
  ELSE 10 * SmallNat[SubSeq(ds, 1, Len(ds) - 1)] + DigitVal(ds[Len(ds)])

\* a * 10^n
BTimesTens[a \in Limbs, n \in Nat] ==
  IF n < 5 THEN BMulSmall(a, 10 ^ n)
  ELSE BTimesTens[BTimesTens[a, n \div 2], n - n \div 2]

\* the int of the digits ds
DigitsNat[ds \in Text] ==
  IF Len(ds) <= 4 THEN BFromInt[SmallNat[ds]]
  ELSE BAdd(BTimesTens[DigitsNat[SubSeq(ds, 1, Len(ds) \div 2)], Len(ds) - Len(ds) \div 2],
            DigitsNat[SubSeq(ds, Len(ds) \div 2 + 1, Len(ds))])

AllDigits[ds \in Text] == \A i \in 1..Len(ds) : IsDigit(ds[i])

\* every "_" stands between two digits
UnderscoresOk[t \in Text] ==
  \A i \in 1..Len(t) :
    t[i] = "_" => (1 < i /\ i < Len(t) /\ IsDigit(t[i - 1]) /\ IsDigit(t[i + 1]))

NoUnderscores[t \in Text] == SelectSeq(t, LAMBDA c : c # "_")

\* the letters of inf, infinity, nan and the exponent mark in lower case
LowerChar(c) ==
  IF c = "I" THEN "i" ELSE IF c = "N" THEN "n" ELSE IF c = "F" THEN "f"
  ELSE IF c = "T" THEN "t" ELSE IF c = "Y" THEN "y" ELSE IF c = "A" THEN "a"
  ELSE IF c = "E" THEN "e" ELSE c

Lower[t \in Text] == [i \in 1..Len(t) |-> LowerChar(t[i])]

\* divisors, none above LimbBase, whose product is 10^n
Tens[n \in Nat] ==
  [i \in 1..(n \div 4) |-> 10 ^ 4] \o (IF n % 4 = 0 THEN <<>> ELSE <<10 ^ (n % 4)>>)

\* (-1)^neg * D * 10^x for D > 0 of nd decimal digits: beyond 10^310 every
\* value rounds to an infinity, below 10^-330 to a zero
DecimalValue[neg \in BOOLEAN, D \in Limbs, x \in Int, nd \in Nat] ==
  IF D = <<>> THEN DZero(neg)
  ELSE IF nd + x > 310 THEN DInf(neg)
  ELSE IF nd + x < -330 THEN DZero(neg)
  ELSE IF x >= 0 THEN RoundNat[neg, BTimesTens[D, x], 0]
  ELSE RoundQuot[neg, D, Tens[-x], 0]

\* the int of the digits of an exponent, cut off at 10^7
ExponentOf[ds \in Text] ==
  IF Len(Significant[ds]) > 7 THEN 10 ^ 7 ELSE BToInt[DigitsNat[Significant[ds]]]

\* [sign] ip [. fp] times 10^x
FloatDigits[neg \in BOOLEAN, ip \in Text, fp \in Text, x \in Int] ==
  IF Len(ip) + Len(fp) > 0 /\ AllDigits[ip] /\ AllDigits[fp]
  THEN [ok |-> TRUE,
        val |-> DecimalValue[neg, DigitsNat[ip \o fp], x - Len(fp),
                             Len(Significant[ip \o fp])]]
  ELSE NoFloat

FloatMantissa[neg \in BOOLEAN, parts \in Seq(Text), x \in Int] ==
  IF Len(parts) = 1 THEN FloatDigits[neg, parts[1], <<>>, x]
  ELSE IF Len(parts) = 2 THEN FloatDigits[neg, parts[1], parts[2], x]
  ELSE NoFloat

\* the exponent part: [sign] digits
FloatExponent[neg \in BOOLEAN, mant \in Text, ex \in Text] ==
  IF ex # <<>> /\ ex[1] \in {"-", "+"}
  THEN IF Len(ex) > 1 /\ AllDigits[Tail(ex)]
       THEN FloatMantissa[neg, Split(mant, "."),
                          IF ex[1] = "-" THEN -ExponentOf[Tail(ex)] ELSE ExponentOf[Tail(ex)]]
       ELSE NoFloat
  ELSE IF ex # <<>> /\ AllDigits[ex] THEN FloatMantissa[neg, Split(mant, "."), ExponentOf[ex]]
  ELSE NoFloat

FloatParts[neg \in BOOLEAN, parts \in Seq(Text)] ==
  IF Len(parts) = 1 THEN FloatMantissa[neg, Split(parts[1], "."), 0]
  ELSE IF Len(parts) = 2 THEN FloatExponent[neg, parts[1], parts[2]]
  ELSE NoFloat

\* the literal after its sign, in lower case
FloatUnsigned[neg \in BOOLEAN, u \in Text] ==
  IF u = <<"i", "n", "f">> \/ u = <<"i", "n", "f", "i", "n", "i", "t", "y">>
  THEN [ok |-> TRUE, val |-> DInf(neg)]
  ELSE IF u = <<"n", "a", "n">> THEN [ok |-> TRUE, val |-> DNaN]
  ELSE FloatParts[neg, Split(u, "e")]

FloatSigned[t \in Text] ==
  IF t # <<>> /\ t[1] \in {"-", "+"} THEN FloatUnsigned[t[1] = "-", Lower[Tail(t)]]
  ELSE FloatUnsigned[FALSE, Lower[t]]

FloatStripped[t \in Text] ==
  IF UnderscoresOk[t] THEN FloatSigned[NoUnderscores[t]] ELSE NoFloat

\* the decimal digits beyond ASCII (Unicode 14.0): UnicodeDigits[d + 1] holds
\* the digits of value d
UnicodeDigits ==
  <<{"\\u0660", "\\u06f0", "\\u07c0", "\\u0966", "\\u09e6", "\\u0a66",
     "\\u0ae6", "\\u0b66", "\\u0be6", "\\u0c66", "\\u0ce6", "\\u0d66",
     "\\u0de6", "\\u0e50", "\\u0ed0", "\\u0f20", "\\u1040", "\\u1090",
     "\\u17e0", "\\u1810", "\\u1946", "\\u19d0", "\\u1a80", "\\u1a90",
     "\\u1b50", "\\u1bb0", "\\u1c40", "\\u1c50", "\\ua620", "\\ua8d0",
     "\\ua900", "\\ua9d0", "\\ua9f0", "\\uaa50", "\\uabf0", "\\uff10",
     "\\U000104a0", "\\U00010d30", "\\U00011066", "\\U000110f0",
     "\\U00011136", "\\U000111d0", "\\U000112f0", "\\U00011450",
     "\\U000114d0", "\\U00011650", "\\U000116c0", "\\U00011730",
     "\\U000118e0", "\\U00011950", "\\U00011c50", "\\U00011d50",
     "\\U00011da0", "\\U00016a60", "\\U00016ac0", "\\U00016b50",
     "\\U0001d7ce", "\\U0001d7d8", "\\U0001d7e2", "\\U0001d7ec",
     "\\U0001d7f6", "\\U0001e140", "\\U0001e2f0", "\\U0001e950",
     "\\U0001fbf0"},
    {"\\u0661", "\\u06f1", "\\u07c1", "\\u0967", "\\u09e7", "\\u0a67",
     "\\u0ae7", "\\u0b67", "\\u0be7", "\\u0c67", "\\u0ce7", "\\u0d67",
     "\\u0de7", "\\u0e51", "\\u0ed1", "\\u0f21", "\\u1041", "\\u1091",
     "\\u17e1", "\\u1811", "\\u1947", "\\u19d1", "\\u1a81", "\\u1a91",
     "\\u1b51", "\\u1bb1", "\\u1c41", "\\u1c51", "\\ua621", "\\ua8d1",
     "\\ua901", "\\ua9d1", "\\ua9f1", "\\uaa51", "\\uabf1", "\\uff11",
     "\\U000104a1", "\\U00010d31", "\\U00011067", "\\U000110f1",
     "\\U00011137", "\\U000111d1", "\\U000112f1", "\\U00011451",
     "\\U000114d1", "\\U00011651", "\\U000116c1", "\\U00011731",
     "\\U000118e1", "\\U00011951", "\\U00011c51", "\\U00011d51",
     "\\U00011da1", "\\U00016a61", "\\U00016ac1", "\\U00016b51",
     "\\U0001d7cf", "\\U0001d7d9", "\\U0001d7e3", "\\U0001d7ed",
     "\\U0001d7f7", "\\U0001e141", "\\U0001e2f1", "\\U0001e951",
     "\\U0001fbf1"},
    {"\\u0662", "\\u06f2", "\\u07c2", "\\u0968", "\\u09e8", "\\u0a68",
     "\\u0ae8", "\\u0b68", "\\u0be8", "\\u0c68", "\\u0ce8", "\\u0d68",
     "\\u0de8", "\\u0e52", "\\u0ed2", "\\u0f22", "\\u1042", "\\u1092",
     "\\u17e2", "\\u1812", "\\u1948", "\\u19d2", "\\u1a82", "\\u1a92",
     "\\u1b52", "\\u1bb2", "\\u1c42", "\\u1c52", "\\ua622", "\\ua8d2",
     "\\ua902", "\\ua9d2", "\\ua9f2", "\\uaa52", "\\uabf2", "\\uff12",
     "\\U000104a2", "\\U00010d32", "\\U00011068", "\\U000110f2",
     "\\U00011138", "\\U000111d2", "\\U000112f2", "\\U00011452",
     "\\U000114d2", "\\U00011652", "\\U000116c2", "\\U00011732",
     "\\U000118e2", "\\U00011952", "\\U00011c52", "\\U00011d52",
     "\\U00011da2", "\\U00016a62", "\\U00016ac2", "\\U00016b52",
     "\\U0001d7d0", "\\U0001d7da", "\\U0001d7e4", "\\U0001d7ee",
     "\\U0001d7f8", "\\U0001e142", "\\U0001e2f2", "\\U0001e952",
     "\\U0001fbf2"},
    {"\\u0663", "\\u06f3", "\\u07c3", "\\u0969", "\\u09e9", "\\u0a69",
     "\\u0ae9", "\\u0b69", "\\u0be9", "\\u0c69", "\\u0ce9", "\\u0d69",
     "\\u0de9", "\\u0e53", "\\u0ed3", "\\u0f23", "\\u1043", "\\u1093",
     "\\u17e3", "\\u1813", "\\u1949", "\\u19d3", "\\u1a83", "\\u1a93",
     "\\u1b53", "\\u1bb3", "\\u1c43", "\\u1c53", "\\ua623", "\\ua8d3",
     "\\ua903", "\\ua9d3", "\\ua9f3", "\\uaa53", "\\uabf3", "\\uff13",
     "\\U000104a3", "\\U00010d33", "\\U00011069", "\\U000110f3",
     "\\U00011139", "\\U000111d3", "\\U000112f3", "\\U00011453",
     "\\U000114d3", "\\U00011653", "\\U000116c3", "\\U00011733",
     "\\U000118e3", "\\U00011953", "\\U00011c53", "\\U00011d53",
     "\\U00011da3", "\\U00016a63", "\\U00016ac3", "\\U00016b53",
     "\\U0001d7d1", "\\U0001d7db", "\\U0001d7e5", "\\U0001d7ef",
     "\\U0001d7f9", "\\U0001e143", "\\U0001e2f3", "\\U0001e953",
     "\\U0001fbf3"},
    {"\\u0664", "\\u06f4", "\\u07c4", "\\u096a", "\\u09ea", "\\u0a6a",
     "\\u0aea", "\\u0b6a", "\\u0bea", "\\u0c6a", "\\u0cea", "\\u0d6a",
     "\\u0dea", "\\u0e54", "\\u0ed4", "\\u0f24", "\\u1044", "\\u1094",
     "\\u17e4", "\\u1814", "\\u194a", "\\u19d4", "\\u1a84", "\\u1a94",
     "\\u1b54", "\\u1bb4", "\\u1c44", "\\u1c54", "\\ua624", "\\ua8d4",
     "\\ua904", "\\ua9d4", "\\ua9f4", "\\uaa54", "\\uabf4", "\\uff14",
     "\\U000104a4", "\\U00010d34", "\\U0001106a", "\\U000110f4",
     "\\U0001113a", "\\U000111d4", "\\U000112f4", "\\U00011454",
     "\\U000114d4", "\\U00011654", "\\U000116c4", "\\U00011734",
     "\\U000118e4", "\\U00011954", "\\U00011c54", "\\U00011d54",
     "\\U00011da4", "\\U00016a64", "\\U00016ac4", "\\U00016b54",
     "\\U0001d7d2", "\\U0001d7dc", "\\U0001d7e6", "\\U0001d7f0",
     "\\U0001d7fa", "\\U0001e144", "\\U0001e2f4", "\\U0001e954",
     "\\U0001fbf4"},
    {"\\u0665", "\\u06f5", "\\u07c5", "\\u096b", "\\u09eb", "\\u0a6b",
     "\\u0aeb", "\\u0b6b", "\\u0beb", "\\u0c6b", "\\u0ceb", "\\u0d6b",
     "\\u0deb", "\\u0e55", "\\u0ed5", "\\u0f25", "\\u1045", "\\u1095",
     "\\u17e5", "\\u1815", "\\u194b", "\\u19d5", "\\u1a85", "\\u1a95",
     "\\u1b55", "\\u1bb5", "\\u1c45", "\\u1c55", "\\ua625", "\\ua8d5",
     "\\ua905", "\\ua9d5", "\\ua9f5", "\\uaa55", "\\uabf5", "\\uff15",
     "\\U000104a5", "\\U00010d35", "\\U0001106b", "\\U000110f5",
     "\\U0001113b", "\\U000111d5", "\\U000112f5", "\\U00011455",
     "\\U000114d5", "\\U00011655", "\\U000116c5", "\\U00011735",
     "\\U000118e5", "\\U00011955", "\\U00011c55", "\\U00011d55",
     "\\U00011da5", "\\U00016a65", "\\U00016ac5", "\\U00016b55",
     "\\U0001d7d3", "\\U0001d7dd", "\\U0001d7e7", "\\U0001d7f1",
     "\\U0001d7fb", "\\U0001e145", "\\U0001e2f5", "\\U0001e955",
     "\\U0001fbf5"},
    {"\\u0666", "\\u06f6", "\\u07c6", "\\u096c", "\\u09ec", "\\u0a6c",
     "\\u0aec", "\\u0b6c", "\\u0bec", "\\u0c6c", "\\u0cec", "\\u0d6c",
     "\\u0dec", "\\u0e56", "\\u0ed6", "\\u0f26", "\\u1046", "\\u1096",
     "\\u17e6", "\\u1816", "\\u194c", "\\u19d6", "\\u1a86", "\\u1a96",
     "\\u1b56", "\\u1bb6", "\\u1c46", "\\u1c56", "\\ua626", "\\ua8d6",
     "\\ua906", "\\ua9d6", "\\ua9f6", "\\uaa56", "\\uabf6", "\\uff16",
     "\\U000104a6", "\\U00010d36", "\\U0001106c", "\\U000110f6",
     "\\U0001113c", "\\U000111d6", "\\U000112f6", "\\U00011456",
     "\\U000114d6", "\\U00011656", "\\U000116c6", "\\U00011736",
     "\\U000118e6", "\\U00011956", "\\U00011c56", "\\U00011d56",
     "\\U00011da6", "\\U00016a66", "\\U00016ac6", "\\U00016b56",
     "\\U0001d7d4", "\\U0001d7de", "\\U0001d7e8", "\\U0001d7f2",
     "\\U0001d7fc", "\\U0001e146", "\\U0001e2f6", "\\U0001e956",
     "\\U0001fbf6"},
    {"\\u0667", "\\u06f7", "\\u07c7", "\\u096d", "\\u09ed", "\\u0a6d",
     "\\u0aed", "\\u0b6d", "\\u0bed", "\\u0c6d", "\\u0ced", "\\u0d6d",
     "\\u0ded", "\\u0e57", "\\u0ed7", "\\u0f27", "\\u1047", "\\u1097",
     "\\u17e7", "\\u1817", "\\u194d", "\\u19d7", "\\u1a87", "\\u1a97",
     "\\u1b57", "\\u1bb7", "\\u1c47", "\\u1c57", "\\ua627", "\\ua8d7",
     "\\ua907", "\\ua9d7", "\\ua9f7", "\\uaa57", "\\uabf7", "\\uff17",
     "\\U000104a7", "\\U00010d37", "\\U0001106d", "\\U000110f7",
     "\\U0001113d", "\\U000111d7", "\\U000112f7", "\\U00011457",
     "\\U000114d7", "\\U00011657", "\\U000116c7", "\\U00011737",
     "\\U000118e7", "\\U00011957", "\\U00011c57", "\\U00011d57",
     "\\U00011da7", "\\U00016a67", "\\U00016ac7", "\\U00016b57",
     "\\U0001d7d5", "\\U0001d7df", "\\U0001d7e9", "\\U0001d7f3",
     "\\U0001d7fd", "\\U0001e147", "\\U0001e2f7", "\\U0001e957",
     "\\U0001fbf7"},
    {"\\u0668", "\\u06f8", "\\u07c8", "\\u096e", "\\u09ee", "\\u0a6e",
     "\\u0aee", "\\u0b6e", "\\u0bee", "\\u0c6e", "\\u0cee", "\\u0d6e",
     "\\u0dee", "\\u0e58", "\\u0ed8", "\\u0f28", "\\u1048", "\\u1098",
     "\\u17e8", "\\u1818", "\\u194e", "\\u19d8", "\\u1a88", "\\u1a98",
     "\\u1b58", "\\u1bb8", "\\u1c48", "\\u1c58", "\\ua628", "\\ua8d8",
     "\\ua908", "\\ua9d8", "\\ua9f8", "\\uaa58", "\\uabf8", "\\uff18",
     "\\U000104a8", "\\U00010d38", "\\U0001106e", "\\U000110f8",
     "\\U0001113e", "\\U000111d8", "\\U000112f8", "\\U00011458",
     "\\U000114d8", "\\U00011658", "\\U000116c8", "\\U00011738",
     "\\U000118e8", "\\U00011958", "\\U00011c58", "\\U00011d58",
     "\\U00011da8", "\\U00016a68", "\\U00016ac8", "\\U00016b58",
     "\\U0001d7d6", "\\U0001d7e0", "\\U0001d7ea", "\\U0001d7f4",
     "\\U0001d7fe", "\\U0001e148", "\\U0001e2f8", "\\U0001e958",
     "\\U0001fbf8"},
    {"\\u0669", "\\u06f9", "\\u07c9", "\\u096f", "\\u09ef", "\\u0a6f",
     "\\u0aef", "\\u0b6f", "\\u0bef", "\\u0c6f", "\\u0cef", "\\u0d6f",
     "\\u0def", "\\u0e59", "\\u0ed9", "\\u0f29", "\\u1049", "\\u1099",
     "\\u17e9", "\\u1819", "\\u194f", "\\u19d9", "\\u1a89", "\\u1a99",
     "\\u1b59", "\\u1bb9", "\\u1c49", "\\u1c59", "\\ua629", "\\ua8d9",
     "\\ua909", "\\ua9d9", "\\ua9f9", "\\uaa59", "\\uabf9", "\\uff19",
     "\\U000104a9", "\\U00010d39", "\\U0001106f", "\\U000110f9",
     "\\U0001113f", "\\U000111d9", "\\U000112f9", "\\U00011459",
     "\\U000114d9", "\\U00011659", "\\U000116c9", "\\U00011739",
     "\\U000118e9", "\\U00011959", "\\U00011c59", "\\U00011d59",
     "\\U00011da9", "\\U00016a69", "\\U00016ac9", "\\U00016b59",
     "\\U0001d7d7", "\\U0001d7e1", "\\U0001d7eb", "\\U0001d7f5",
     "\\U0001d7ff", "\\U0001e149", "\\U0001e2f9", "\\U0001e959",
     "\\U0001fbf9"}>>

\* what float() makes of a character before it parses: a blank of a white
\* space character beyond ASCII, the ASCII digit of a decimal digit
ToAscii(c) ==
  IF c \in UnicodeWhitespace THEN " "
  ELSE IF \E d \in 0..9 : c \in UnicodeDigits[d + 1]
  THEN Digit[CHOOSE k \in 1..10 : c \in UnicodeDigits[k]]
  ELSE c

Ascii[s \in Text] == [i \in 1..Len(s) |-> ToAscii(s[i])]

\* the text without the ASCII white space around it, which leaves the
\* separators \x1c to \x1f in place
FloatStrip[s \in Text] == RStrip[LStrip[s, AsciiWhitespace], AsciiWhitespace]

\* float(s); ok = FALSE when it raises ValueError
FloatOf(s) == FloatStripped[FloatStrip[Ascii[s]]]

(***************************************************************************)
(* Bounds of the model.                                                    *)
(***************************************************************************)
\* longest Avro container (blocks after the header) the mapper is run on
MaxRecords == 3
\* longest intermediate stream the reducer is run on directly
MaxLines == 3

(***************************************************************************)
(* mapper.py                                                               *)
(***************************************************************************)
\* h hours in milliseconds
Millis(h) == BMulSmall(BMulSmall(BFromInt[h], 3600), 1000)

\* datetime.datetime(2025, 5, 27) is a naive datetime: timestamp() reads it
\* in the local time zone, tz hours east of UTC.  Day 20235 is 2025-05-27.
REFERENCE_DATE(tz) == DFromInt(FALSE, Millis(20235 * 24 - tz))

\* 1000 * 60 * 60 * 24 * 365.25 = 31557600000.0 = 256 * 81 * 487 * 3125
YearMillis == <<256, 81, 487, 3125>>

TimeZones == {-12, 0, 14}

\* days of birth: 2000-05-27 and 2026-05-27 (after the reference)
DobDays == {11104, 20600}

\* What the container yields after its header: bytes the reader cannot
\* decode, or a record whose dob is absent (or null), a str, a datetime (an
\* Avro timestamp), a long, a double or a boolean.  dob is the number a long
\* (milliseconds since the epoch, 00:00Z of a day of DobDays), a double (half
\* a millisecond into 1990-05-27) or a boolean (True) holds.
Blocks ==
  {[kind |-> k, dob |-> DZero(FALSE)] : k \in {"corrupt", "absent", "str", "datetime"}} \cup
  {[kind |-> "long", dob |-> [neg |-> FALSE, m |-> Millis(24 * d), e |-> 0]] : d \in DobDays} \cup
  {[kind |-> "double",
    dob |-> RoundNat[FALSE, BAdd(BShl[Millis(24 * 7451), 1], <<1>>), -1]],
   [kind |-> "bool", dob |-> [neg |-> FALSE, m |-> <<1>>, e |-> 0]]}

RECURSIVE SeqsUpTo(_, _)
SeqsUpTo(S, n) ==
  IF n = 0 THEN {<<>>}
  ELSE LET shorter == SeqsUpTo(S, n - 1)
       IN  shorter \cup {Append(q, e) : q \in {r \in shorter : Len(r) = n - 1}, e \in S}

\* a container whose header decodes, or one whose header does not: what
\* follows that header is never read, and one block stands for it
Containers ==
  {[header |-> TRUE, blocks |-> b] : b \in SeqsUpTo(Blocks, MaxRecords)} \cup
  {[header |-> FALSE, blocks |-> b] : b \in SeqsUpTo(Blocks, 1)}

\* dob is not None
HasDob(record) == record.kind # "absent"

\* REFERENCE_DATE - dob raises TypeError unless dob is a number
Subtractable(record) == record.kind \in {"long", "double", "bool"}

\* the float that the subtraction makes of dob: a double is one, an int or
\* a bool is converted
FloatOfDob(record) ==
  IF record.kind = "double" THEN record.dob
  ELSE RoundNat[record.dob.neg, record.dob.m, record.dob.e]

\* variant: a year of 365 days, 31536000000.0 = 1024 * 27 * 73 * 15625
AgeYear365(ref, dob) == DDivBy[DAdd[ref, DNeg[dob]], <<1024, 27, 73, 15625>>]

\* age = (REFERENCE_DATE - dob) / (1000 * 60 * 60 * 24 * 365.25)
Age(ref, dob) == DDivBy[DAdd[ref, DNeg[dob]], YearMillis]

\* print(f"1\t{age:.2f}")
MapperLine(age) == <<"1", "\t">> \o Format2[age] \o <<"\n">>

TypeErrorText(record) ==
  IF record.kind = "str" THEN "unsupported operand type(s) for -: 'float' and 'str'"
  ELSE "unsupported operand type(s) for -: 'float' and 'datetime.datetime'"

DecodeErrorText == "cannot decode the Avro container"

MapperError(e) == <<"Error in mapper: ", e>>

(***************************************************************************)
(* reducer.py                                                              *)
(***************************************************************************)
\* the intermediate lines the reducer is run on directly
Lines ==
  { <<"1", "\t", "0", ".", "1", "0", "\n">>,
    <<"1", "\t", "0", ".", "2", "0", "\n">>,
    <<"7", "\t", "2", "5", ".", "0", "0", "\n">>,
    <<"\t", "0", ".", "1", "0", "\n">>,
    <<"\n">>,
    <<"1", "\t", "a", "b", "\n">>,
    <<"1", "\t", "0", ".", "2", "0", "\t", "\n">>,
    <<"1", "\t", "0", ".", "1", "0", "\t", "1", "\n">>,
    <<"1", "\t", "1", "E", "3", "0", "8", "\r", "\n">>,
    <<"1", "\t", "-", "i", "n", "f", "\n">> }

Streams == SeqsUpTo(Lines, MaxLines)

\* line.strip().split('\t')
Fields(line) == Split(Strip(line), "\t")

\* variant: key, age = fields[:2]
UnpacksAtLeast(fields) == Len(fields) >= 2

\* key, age = ...: the unpacking needs exactly two fields
Unpacks(fields) == Len(fields) = 2

UnpackErrorText(fields) ==
  IF Len(fields) < 2 THEN <<"not enough values to unpack (expected 2, got 1)">>
  ELSE <<"too many values to unpack (expected 2)">>

\* str(e) of the ValueError float(age) raises
FloatErrorText(age) == <<"could not convert string to float: ">> \o Repr(age)

\* variant: count += 1 left out
AccumulateNoCount(agg, value) ==
  [sum |-> DAdd[agg.sum, value], count |-> agg.count]

\* variant: total_age = float(age)
AccumulateOverwrite(agg, value) ==
  [sum |-> value, count |-> agg.count + 1]

\* total_age += float(age); count += 1
Accumulate(agg, value) ==
  [sum |-> DAdd[agg.sum, value], count |-> agg.count + 1]

\* total_age = 0.0; count = 0
EmptyAggregate == [sum |-> DZero(FALSE), count |-> 0]

\* variant: if count >= 0
HasDataOrEmpty(n) == n >= 0

\* the values float(age) reads off a stream of lines the loop accepts
RECURSIVE Values(_)
Values(lines) ==
  IF lines = <<>> THEN <<>>
  ELSE Append(Values(SubSeq(lines, 1, Len(lines) - 1)),
              FloatOf(Fields(lines[Len(lines)])[2]).val)

\* the (sum, count) the loop builds over the values of a stream
RECURSIVE Aggregate(_)
Aggregate(values) ==
  IF values = <<>> THEN EmptyAggregate
  ELSE Accumulate(Aggregate(SubSeq(values, 1, Len(values) - 1)), values[Len(values)])

\* merge((s1, c1), (s2, c2)) = (s1 + s2, c1 + c2)
Merge(a, b) == [sum |-> DAdd[a.sum, b.sum], count |-> a.count + b.count]

\* if count > 0
HasData(n) == n > 0

\* print(f"Average Patient Age: {average_age:.2f} years")
ResultLine(average_age) ==
  <<"Average Patient Age: ">> \o Format2[average_age] \o <<" years">>

NoDataLine == <<"No valid ages found">>

ReducerError(e) == <<"Error in reducer: ">> \o e

ZeroDivisionText == <<"float division by zero">>

(***************************************************************************)
(* State.                                                                  *)
(***************************************************************************)
VARIABLES
  input_data,   \* mapper: the container read from stdin
  tz,           \* mapper: the time zone of the process, hours east of UTC
  mpc,          \* mapper: "idle", "start", "loop", "done"
  reader,       \* mapper: number of records the reader has yielded
  stdout_m,     \* mapper: the lines printed
  origin,       \* for each printed line, the index of the block it came from
  stderr_m,     \* mapper: the diagnostics printed
  stdin_r,      \* reducer: the lines of its stdin
  rpc,          \* reducer: "idle", "start", "loop", "done"
  consumed,     \* reducer: number of lines the for loop has taken
  total_age,    \* reducer: running sum
  count,        \* reducer: running count
  stdout_r,     \* reducer: the lines printed
  stderr_r      \* reducer: the diagnostics printed

mvars == <<input_data, tz, mpc, reader, stdout_m, origin, stderr_m>>
rvars == <<stdin_r, rpc, consumed, total_age, count, stdout_r, stderr_r>>
vars == <<input_data, tz, mpc, reader, stdout_m, origin, stderr_m,
          stdin_r, rpc, consumed, total_age, count, stdout_r, stderr_r>>

\* Either the whole pipeline is run on a container, or the reducer alone is
\* run on a stream of lines.
Init ==
  /\ reader = 0 /\ stdout_m = <<>> /\ origin = <<>> /\ stderr_m = <<>>
  /\ consumed = 0 /\ total_age = DZero(FALSE) /\ count = 0
  /\ stdout_r = <<>> /\ stderr_r = <<>>
  /\ \/ /\ input_data \in Containers
        /\ tz \in TimeZones
        /\ mpc = "start"
        /\ stdin_r = <<>>
        /\ rpc = "idle"
     \/ /\ input_data = [header |-> TRUE, blocks |-> <<>>]
        /\ tz = 0
        /\ mpc = "idle"
        /\ stdin_r \in Streams
        /\ rpc = "start"

(***************************************************************************)
(* read_avro_from_stdin                                                    *)
(***************************************************************************)
\* variant: the try block inside the loop, the failing block is skipped
MapperRaiseContinue(e, yielded) ==
  /\ stderr_m' = Append(stderr_m, MapperError(e))
  /\ mpc' = "loop"
  /\ reader' = IF mpc = "loop" THEN reader + 1 ELSE reader
  /\ UNCHANGED <<input_data, tz, stdout_m, origin>>

\* variant: the diagnostic goes to stdout (file=sys.stderr left out)
MapperRaiseStdout(e, yielded) ==
  /\ stdout_m' = Append(stdout_m, MapperError(e))
  /\ origin' = Append(origin, reader + 1)
  /\ reader' = yielded
  /\ mpc' = "done"
  /\ UNCHANGED <<input_data, tz, stderr_m>>

\* except Exception as e: print(f"Error in mapper: {e}", file=sys.stderr),
\* the reader having yielded that many records
MapperRaise(e, yielded) ==
  /\ stderr_m' = Append(stderr_m, MapperError(e))
  /\ reader' = yielded
  /\ mpc' = "done"
  /\ UNCHANGED <<input_data, tz, stdout_m, origin>>

\* input_data = sys.stdin.buffer.read(); DataFileReader(...) decodes the header
MapperOpen ==
  /\ mpc = "start"
  /\ IF input_data.header
     THEN mpc' = "loop" /\ UNCHANGED <<input_data, tz, reader, stdout_m, origin, stderr_m>>
     ELSE MapperRaise(DecodeErrorText, reader)
  /\ UNCHANGED rvars

\* one turn of "for record in reader": the reader fails to decode the next
\* block, or yields its record to the body
MapperRecord ==
  /\ mpc = "loop"
  /\ reader < Len(input_data.blocks)
  /\ LET record == input_data.blocks[reader + 1]
     IN  IF record.kind = "corrupt" THEN MapperRaise(DecodeErrorText, reader)
         ELSE IF ~HasDob(record)
         THEN reader' = reader + 1 /\
              UNCHANGED <<input_data, tz, mpc, stdout_m, origin, stderr_m>>
         ELSE IF ~Subtractable(record) THEN MapperRaise(TypeErrorText(record), reader + 1)
         ELSE /\ stdout_m' = Append(stdout_m,
                               MapperLine(Age(REFERENCE_DATE(tz), FloatOfDob(record))))
              /\ origin' = Append(origin, reader + 1)
              /\ reader' = reader + 1
              /\ UNCHANGED <<input_data, tz, mpc, stderr_m>>
  /\ UNCHANGED rvars

\* the loop ends; reader.close()
MapperClose ==
  /\ mpc = "loop"
  /\ reader = Len(input_data.blocks)
  /\ mpc' = "done"
  /\ UNCHANGED <<input_data, tz, reader, stdout_m, origin, stderr_m>>
  /\ UNCHANGED rvars

\* The mapper has returned; what it printed is the reducer's stdin.
Pipe ==
  /\ mpc = "done"
  /\ rpc = "idle"
  /\ stdin_r' = stdout_m
  /\ rpc' = "start"
  /\ UNCHANGED <<consumed, total_age, count, stdout_r, stderr_r>>
  /\ UNCHANGED mvars

(***************************************************************************)
(* reduce_ages                                                             *)
(***************************************************************************)
\* variant: the try block inside the loop, the failing line is skipped
ReducerRaiseContinue(e, taken) ==
  /\ stderr_r' = Append(stderr_r, ReducerError(e))
  /\ consumed' = taken
  /\ rpc' = IF taken > consumed THEN "loop" ELSE "done"
  /\ UNCHANGED <<stdin_r, total_age, count, stdout_r>>

\* except Exception as e: print(f"Error in reducer: {e}", file=sys.stderr),
\* the for loop having taken that many lines
ReducerRaise(e, taken) ==
  /\ stderr_r' = Append(stderr_r, ReducerError(e))
  /\ consumed' = taken
  /\ rpc' = "done"
  /\ UNCHANGED <<stdin_r, total_age, count, stdout_r>>

\* total_age = 0.0; count = 0; the try block is entered
ReducerStart ==
  /\ rpc = "start"
  /\ total_age' = EmptyAggregate.sum
  /\ count' = EmptyAggregate.count
  /\ rpc' = "loop"
  /\ UNCHANGED <<stdin_r, consumed, stdout_r, stderr_r>>
  /\ UNCHANGED mvars

\* one turn of "for line in sys.stdin": the line is taken, then the body runs
ReducerLine ==
  /\ rpc = "loop"
  /\ consumed < Len(stdin_r)
  /\ LET line   == stdin_r[consumed + 1]
         fields == Fields(line)
         age    == FloatOf(fields[2])
         agg    == Accumulate([sum |-> total_age, count |-> count], age.val)
     IN  IF ~Unpacks(fields) THEN ReducerRaise(UnpackErrorText(fields), consumed + 1)
         ELSE IF ~age.ok THEN ReducerRaise(FloatErrorText(fields[2]), consumed + 1)
         ELSE /\ total_age' = agg.sum
              /\ count' = agg.count
              /\ consumed' = consumed + 1
              /\ UNCHANGED <<stdin_r, rpc, stdout_r, stderr_r>>
  /\ UNCHANGED mvars

\* end of input: the mean, or the "no data" diagnostic
ReducerEnd ==
  /\ rpc = "loop"
  /\ consumed = Len(stdin_r)
  /\ IF HasData(count)
     THEN IF count = 0 THEN ReducerRaise(ZeroDivisionText, consumed)
          ELSE /\ stdout_r' = Append(stdout_r, ResultLine(DDivInt[total_age, count]))
               /\ rpc' = "done"
               /\ UNCHANGED <<stdin_r, consumed, total_age, count, stderr_r>>
     ELSE /\ stderr_r' = Append(stderr_r, NoDataLine)
          /\ rpc' = "done"
          /\ UNCHANGED <<stdin_r, consumed, total_age, count, stdout_r>>
  /\ UNCHANGED mvars

Next ==
  \/ MapperOpen
  \/ MapperRecord
  \/ MapperClose
  \/ Pipe
  \/ ReducerStart
  \/ ReducerLine
  \/ ReducerEnd

Spec == Init /\ [][Next]_vars

\* Each script runs to its end once started, and the framework starts the
\* reducer once the mapper has returned.
FairSpec == Spec /\ WF_vars(Next)

(***************************************************************************)
(* Vocabulary of the properties.                                           *)
(***************************************************************************)
\* the line without its newline
Chomp(line) ==
  IF line # <<>> /\ line[Len(line)] = "\n" THEN SubSeq(line, 1, Len(line) - 1) ELSE line

\* the tab-separated fields of the line as written
TabFields(line) == Split(Chomp(line), "\t")

\* an entry <key>\t<value>: exactly two tab-separated fields, the second numeric
WellFormedEntry(line) ==
  Len(TabFields(line)) = 2 /\ FloatOf(TabFields(line)[2]).ok

\* a well-formed entry whose key column is not blank
KeyedEntry(line) ==
  WellFormedEntry(line) /\ Strip(TabFields(line)[1]) # <<>>

EntryValue(line) == FloatOf(TabFields(line)[2]).val

\* 0.0 + v1 + ... + vk, added left to right
RECURSIVE SumOfValues(_)
SumOfValues(lines) ==
  IF lines = <<>> THEN DZero(FALSE)
  ELSE DAdd[SumOfValues(SubSeq(lines, 1, Len(lines) - 1)), EntryValue(lines[Len(lines)])]

MeanLine(lines) == ResultLine(DDivInt[SumOfValues(lines), Len(lines)])

ReducerFailed == \E i \in 1..Len(stderr_r) : stderr_r[i][1] = "Error in reducer: "

\* the for loop has run to the end of the stream
ReducerExhausted == rpc = "done" /\ ~ReducerFailed

(***************************************************************************)
(* C1: on an input with no entries the pass ends with the "no data"        *)
(* diagnostic and nothing on stdout; sum / count is never evaluated with   *)
(* count = 0 (no ZeroDivisionError is ever reported).                      *)
(***************************************************************************)
C1_ZeroInput ==
  /\ \A i \in 1..Len(stderr_r) : stderr_r[i] # ReducerError(ZeroDivisionText)
  /\ (ReducerExhausted /\ count = 0) => (stderr_r = <<NoDataLine>> /\ stdout_r = <<>>)

C1_Witness ==
  ReducerExhausted /\ stdin_r = <<>> /\ count = 0 /\ stderr_r = <<NoDataLine>>

(***************************************************************************)
(* C2 (as amended): the aggregate starts at (0.0, 0); after a prefix of k  *)
(* well-formed entries with non-blank keys count = k and total_age is the  *)
(* left-to-right sum of their values; at the end of a stream of n >= 1     *)
(* such entries the mean sum / n is printed, whatever the non-blank keys.  *)
(***************************************************************************)
C2_Bookkeeping ==
  /\ (rpc = "loop" /\ consumed = 0) => (total_age = DZero(FALSE) /\ count = 0)
  /\ (rpc \in {"loop", "done"} /\ \A i \in 1..consumed : KeyedEntry(stdin_r[i]))
       => (count = consumed /\ total_age = SumOfValues(SubSeq(stdin_r, 1, consumed)))
  /\ (rpc = "done" /\ stdin_r # <<>> /\ \A i \in 1..Len(stdin_r) : KeyedEntry(stdin_r[i]))
       => (stdout_r = <<MeanLine(stdin_r)>> /\ stderr_r = <<>>)

C2_Witness ==
  /\ rpc = "done" /\ Len(stdin_r) = 3
  /\ \A i \in 1..3 : KeyedEntry(stdin_r[i])
  /\ \E i, j \in 1..3 : TabFields(stdin_r[i])[1] # TabFields(stdin_r[j])[1]
  /\ stdout_r = <<MeanLine(stdin_r)>>

\* C2 as written: every stream of n >= 1 well-formed entries ends with the
\* mean printed, whatever the key column holds (a blank key included).
C2_AnyKey ==
  (rpc = "done" /\ stdin_r # <<>> /\ \A i \in 1..Len(stdin_r) : WellFormedEntry(stdin_r[i]))
    => stdout_r = <<MeanLine(stdin_r)>>

(***************************************************************************)
(* C5 (as amended): a line that, once its surrounding whitespace (tabs     *)
(* included) is stripped, is not two tab-separated fields with a numeric   *)
(* second one stops the pass at that line: it is the last line taken from  *)
(* the stream, it is not accumulated, no mean is printed, and exactly one  *)
(* message goes to stderr.                                                 *)
(***************************************************************************)
StrippedMalformed(line) ==
  LET f == Split(Strip(line), "\t")
  IN  Len(f) # 2 \/ ~FloatOf(f[2]).ok

\* the least element of a non-empty set of numbers
Least(S) == CHOOSE i \in S : \A j \in S : i <= j

\* the first of 1..n that P holds of, n + 1 if there is none
FirstWhere(n, P(_)) ==
  LET hits == {i \in 1..n : P(i)}
  IN  IF hits = {} THEN n + 1 ELSE Least(hits)

C5_MalformedAborts ==
  LET bad == FirstWhere(Len(stdin_r), LAMBDA i : StrippedMalformed(stdin_r[i]))
  IN  bad <= Len(stdin_r) =>
        /\ consumed <= bad
        /\ count < bad
        /\ stdout_r = <<>>
        /\ rpc = "done" =>
             /\ consumed = bad
             /\ count = bad - 1
             /\ Len(stderr_r) = 1
             /\ stderr_r[1][1] = "Error in reducer: "

C5_Witness ==
  /\ rpc = "done" /\ Len(stdin_r) = 3
  /\ ~StrippedMalformed(stdin_r[1]) /\ StrippedMalformed(stdin_r[2])
  /\ consumed = 2 /\ count = 1 /\ Len(stderr_r) = 1 /\ stdout_r = <<>>

\* C5 as written: malformed means "not exactly two tab-separated fields with
\* a numeric second field", counted on the line as it stands.
C5_TabSeparated ==
  LET bad == FirstWhere(Len(stdin_r), LAMBDA i : ~WellFormedEntry(stdin_r[i]))
  IN  bad <= Len(stdin_r) =>
        /\ consumed <= bad
        /\ count < bad
        /\ stdout_r = <<>>
        /\ rpc = "done" => Len(stderr_r) = 1

(***************************************************************************)
(* C7: a pass moves start (INIT) -> loop (ACCUMULATING) -> done            *)
(* (FINALIZED) and never back; lines are consumed only while accumulating; *)
(* the mean is printed only once every line of the stream has been         *)
(* consumed; nothing changes after done; and every pass, once started,     *)
(* ends having printed exactly one line over stdout and stderr together.   *)
(***************************************************************************)
Emissions == Len(stdout_r) + Len(stderr_r)

C7_Step ==
  /\ rpc = "start" => rpc' \in {"start", "loop"}
  /\ rpc = "loop" => rpc' \in {"loop", "done"}
  /\ rpc = "done" => (rpc' = "done" /\ UNCHANGED <<consumed, total_age, count>>)
  /\ consumed' # consumed => (rpc = "loop" /\ consumed' = consumed + 1)
  /\ <<total_age, count>>' # <<total_age, count>> =>
       (rpc' = "loop" /\ (rpc = "start" \/ consumed' = consumed + 1))
  /\ stdout_r' # stdout_r => (rpc = "loop" /\ consumed = Len(stdin_r) /\ rpc' = "done")
  /\ Emissions' # Emissions => (rpc = "loop" /\ rpc' = "done" /\ Emissions' = Emissions + 1)

C7_StateMachine ==
  /\ [][C7_Step]_vars
  /\ [](Emissions = IF rpc = "done" THEN 1 ELSE 0)
  /\ (rpc = "start") ~> (rpc = "done" /\ Emissions = 1)

C7_Witness ==
  rpc = "done" /\ consumed = 3 /\ Len(stdin_r) = 3 /\ Len(stdout_r) = 1 /\ stderr_r = <<>>

(***************************************************************************)
(* C3 (as amended): for every stream the reducer accepts whose values are  *)
(* finite and whose magnitudes add up without overflow, and every split    *)
(* of it into two sub-streams accumulated separately from (0.0, 0), the    *)
(* merged count equals the one-pass count exactly and the merged sum       *)
(* equals the one-pass sum up to floating-point rounding (the two differ   *)
(* by at most n * 2^-51 * (|v1| + ... + |vn|), compared exactly, without   *)
(* rounding); merge is commutative exactly,                                *)
(* and associative exactly in the count and up to the same rounding in     *)
(* the sum; the means agree up to the same rounding.                       *)
(***************************************************************************)
\* the values of colour k, in their order
RECURSIVE Shard(_, _, _)
Shard(values, colour, k) ==
  IF values = <<>> THEN <<>>
  ELSE LET n    == Len(values)
           rest == Shard(SubSeq(values, 1, n - 1), colour, k)
       IN  IF colour[n] = k THEN Append(rest, values[n]) ELSE rest

\* |v1| + ... + |vn|
RECURSIVE SumOfMagnitudes(_)
SumOfMagnitudes(values) ==
  IF values = <<>> THEN DZero(FALSE)
  ELSE DAdd[SumOfMagnitudes(SubSeq(values, 1, Len(values) - 1)),
            [values[Len(values)] EXCEPT !.neg = FALSE]]

\* the lesser of two exponents
Lesser(e, f) == IF e < f THEN e ELSE f

\* |a - b| of two finite doubles as an exact m * 2^e
AbsDiff(a, b) ==
  LET e == Lesser(a.e, b.e)
      A == BShl[a.m, a.e - e]
      B == BShl[b.m, b.e - e]
  IN  [m |-> IF a.neg # b.neg THEN BAdd(A, B)
             ELSE IF BCmp[A, B] >= 0 THEN BSub(A, B) ELSE BSub(B, A),
       e |-> e]

\* |v1| + ... + |vn| of finite doubles as an exact m * 2^e
RECURSIVE ExactMagnitudes(_)
ExactMagnitudes(values) ==
  IF values = <<>> THEN [m |-> <<>>, e |-> 0]
  ELSE LET s == ExactMagnitudes(SubSeq(values, 1, Len(values) - 1))
           v == values[Len(values)]
           e == Lesser(s.e, v.e)
       IN  [m |-> BAdd(BShl[s.m, s.e - e], BShl[v.m, v.e - e]), e |-> e]

\* d <= n * 2^-51 * s, for exact d and s
Within(d, n, s) ==
  LET e == Lesser(d.e + 51, s.e)
  IN  BCmp[BShl[d.m, d.e + 51 - e], BShl[BMulSmall(s.m, n), s.e - e]] <= 0

\* the bound of the law: n and the exact sum of the magnitudes
Tolerance(values) == [n |-> Len(values), s |-> ExactMagnitudes(values)]

Close(a, b, tol) ==
  /\ IsFinite(a) /\ IsFinite(b)
  /\ Within(AbsDiff(a, b), tol.n, tol.s)

MeanOf(agg) == DDivInt[agg.sum, agg.count]

OnePass == [sum |-> total_age, count |-> count]

\* the law on the values of a stream and the aggregate one pass built of it
MergeLaw(values, one) ==
  LET n   == Len(values)
      tol == Tolerance(values)
  IN  /\ \A c \in [1..n -> {1, 2}] :
           LET a == Aggregate(Shard(values, c, 1))
               b == Aggregate(Shard(values, c, 2))
           IN  /\ Merge(a, b).count = one.count
               /\ Close(Merge(a, b).sum, one.sum, tol)
               /\ Merge(a, b) = Merge(b, a)
               /\ n > 0 => Close(MeanOf(Merge(a, b)), MeanOf(one), tol)
      /\ \A c \in [1..n -> {1, 2, 3}] :
           LET a == Aggregate(Shard(values, c, 1))
               b == Aggregate(Shard(values, c, 2))
               d == Aggregate(Shard(values, c, 3))
           IN  /\ Merge(Merge(a, b), d).count = Merge(a, Merge(b, d)).count
               /\ Close(Merge(Merge(a, b), d).sum, Merge(a, Merge(b, d)).sum, tol)

C3_MergeLaw ==
  ReducerExhausted =>
    LET values == Values(stdin_r)
    IN  IsFinite(SumOfMagnitudes(values)) => MergeLaw(values, OnePass)

\* a split into two non-empty sub-streams whose merged sum is not the
\* one-pass sum
Differs(values, one) ==
  \E c \in [1..Len(values) -> {1, 2}] :
    /\ Shard(values, c, 1) # <<>> /\ Shard(values, c, 2) # <<>>
    /\ Merge(Aggregate(Shard(values, c, 1)), Aggregate(Shard(values, c, 2))) # one

C3_Witness ==
  /\ ReducerExhausted /\ Len(stdin_r) = 3
  /\ LET values == Values(stdin_r)
     IN  IsFinite(SumOfMagnitudes(values)) /\ Differs(values, OnePass)

\* C3 as written: the merged aggregate equals the one-pass aggregate
C3_MergeExact == ReducerExhausted => ~Differs(Values(stdin_r), OnePass)

(***************************************************************************)
(* Vocabulary of the mapper's properties.                                  *)
(***************************************************************************)
NBlocks == Len(input_data.blocks)

Block(i) == input_data.blocks[i]

\* how many printed lines came from block i
LinesFrom(i) == Cardinality({j \in 1..Len(origin) : origin[j] = i})

\* where decoding fails: 0 for the header, the index of the first
\* undecodable block, NBlocks + 1 if the container decodes to its end
DecodeFailAt ==
  IF ~input_data.header THEN 0
  ELSE FirstWhere(NBlocks, LAMBDA i : Block(i).kind = "corrupt")

\* where the pass is aborted: by a decoding failure or by a dob that is
\* present and no number
AbortAt ==
  IF ~input_data.header THEN 0
  ELSE FirstWhere(NBlocks, LAMBDA i : Block(i).kind \in {"corrupt", "str", "datetime"})

Decodes == DecodeFailAt = NBlocks + 1

\* the records with a numeric dob ahead of the abort
IsNumber(i) == Block(i).kind \in {"long", "double", "bool"}

EmittedAhead == {i \in 1..NBlocks : i < AbortAt /\ IsNumber(i)}

(***************************************************************************)
(* C4: in a container that decodes and whose records have a dob that is    *)
(* missing, a number, or neither a number nor a date (a str), a record     *)
(* whose dob is missing or a str gets no line, and every later record with *)
(* a numeric dob still gets its line.                                      *)
(***************************************************************************)
C4_DiscardAndContinue ==
  (mpc = "done" /\ Decodes /\ \A i \in 1..NBlocks : Block(i).kind # "datetime") =>
    \A i \in 1..NBlocks :
      Block(i).kind \in {"absent", "str"} =>
        /\ LinesFrom(i) = 0
        /\ \A k \in (i + 1)..NBlocks : IsNumber(k) => LinesFrom(k) = 1

(***************************************************************************)
(* C6: every record gets zero or one line; in a container that decodes, a  *)
(* record whose dob is a number gets exactly one line and a record without *)
(* a dob gets none (a dob that is present but no number may count either   *)
(* way); the lines are in the arrival order of their records; the key of   *)
(* every line is 1.                                                        *)
(***************************************************************************)
C6_EmissionDiscipline ==
  /\ \A j \in 1..Len(stdout_m) : TabFields(stdout_m[j])[1] = <<"1">>
  /\ \A j, k \in 1..Len(origin) : j < k => origin[j] < origin[k]
  /\ Len(origin) = Len(stdout_m)
  /\ \A i \in 1..NBlocks : LinesFrom(i) <= 1
  /\ (mpc = "done" /\ Decodes) =>
       \A i \in 1..NBlocks :
         /\ IsNumber(i) => LinesFrom(i) = 1
         /\ Block(i).kind = "absent" => LinesFrom(i) = 0

(***************************************************************************)
(* C8: when decoding fails (at the header or at a later block) no block at *)
(* or after the failure is processed and none of them gets a line; if the  *)
(* pass got as far as the failure, it ends there with exactly one          *)
(* diagnostic on stderr.                                                   *)
(***************************************************************************)
C8_DecodeAborts ==
  /\ \A j \in 1..Len(origin) : origin[j] < DecodeFailAt
  /\ DecodeFailAt <= NBlocks => reader < DecodeFailAt \/ reader = 0
  /\ (mpc = "done" /\ DecodeFailAt <= NBlocks /\ AbortAt = DecodeFailAt) =>
       /\ stderr_m = <<MapperError(DecodeErrorText)>>
       /\ reader = IF DecodeFailAt = 0 THEN 0 ELSE DecodeFailAt - 1
       /\ Len(stdout_m) = Cardinality(EmittedAhead)

C8_Witness ==
  /\ mpc = "done" /\ NBlocks = 3 /\ DecodeFailAt = 2
  /\ Block(1).kind = "long" /\ Block(3).kind = "long"
  /\ Len(stdout_m) = 1 /\ Len(stderr_m) = 1

(***************************************************************************)
(* C9: for a dob that is a long, the printed value is (REFERENCE_DATE -    *)
(* dob) / (a year of 365.25 days) to two decimals; for dob =               *)
(* 2000-05-27T00:00Z and the reference 2025-05-27T00:00Z the line is       *)
(* "1\t25.00" (within 0.01 of 25 whatever the time zone); a dob after the  *)
(* reference gives a negative value, which is printed as it is.            *)
(***************************************************************************)
HoursPerYear == 24 * 365 + 6

\* 100 * h / HoursPerYear to the nearest integer (it is never half way: 100 * h
\* = HoursPerYear * (k + 1/2) has an even left and an odd right side)
NearestCenti(h) == (200 * h + HoursPerYear) \div (2 * HoursPerYear)

PrintedCenti(line) == BToInt[Hundredths[FloatOf(TabFields(line)[2]).val]]

\* the day a long dob is the midnight of
DobDay(record) == CHOOSE d \in DobDays : record.dob.m = Millis(24 * d)

C9_Age ==
  \A j \in 1..Len(stdout_m) :
    Block(origin[j]).kind = "long" =>
      LET day == DobDay(Block(origin[j]))
          h   == 20235 * 24 - tz - 24 * day
      IN  /\ stdout_m[j] = <<"1", "\t">> \o (IF h < 0 THEN <<"-">> ELSE <<>>) \o
                           CentiStr[BFromInt[NearestCenti(IF h < 0 THEN -h ELSE h)]] \o
                           <<"\n">>
          /\ day = 11104 =>
               /\ PrintedCenti(stdout_m[j]) \in 2499..2501
               /\ tz = 0 => stdout_m[j] = <<"1", "\t", "2", "5", ".", "0", "0", "\n">>
          /\ h < 0 => stdout_m[j][3] = "-"

C9_Witness ==
  /\ mpc = "done" /\ tz = 0
  /\ \E j, k \in 1..Len(stdout_m) :
       /\ Block(origin[j]).kind = "long" /\ DobDay(Block(origin[j])) = 11104
       /\ Block(origin[k]).kind = "long" /\ DobDay(Block(origin[k])) = 20600
       /\ stdout_m[k] = <<"1", "\t", "-", "1", ".", "0", "0", "\n">>

(***************************************************************************)
(* C10: when the mapper fails after printing the ages of a non-empty       *)
(* prefix, it has returned with those lines on stdout and one diagnostic   *)
(* on stderr; the reducer reads exactly those lines and ends by printing   *)
(* their mean on stdout, with nothing on its stderr.                       *)
(***************************************************************************)
C10_PrefixMean ==
  /\ (mpc = "done" /\ AbortAt <= NBlocks) =>
       (Len(stdout_m) = Cardinality(EmittedAhead) /\ Len(stderr_m) = 1)
  /\ (mpc = "done" /\ rpc # "idle") => stdin_r = stdout_m
  /\ (mpc = "done" /\ AbortAt <= NBlocks /\ EmittedAhead # {} /\ rpc = "done") =>
       (stdout_r = <<MeanLine(stdout_m)>> /\ stderr_r = <<>>)

C10_Witness ==
  /\ mpc = "done" /\ rpc = "done" /\ NBlocks = 3 /\ AbortAt = 3
  /\ Cardinality(EmittedAhead) = 2
  /\ Len(stderr_m) = 1 /\ Len(stdout_r) = 1 /\ stderr_r = <<>>

=============================================================================
